---- MODULE Spec2Model ----
(***************************************************************************)
(* A model of flask_phpbb3: the ACL decoder                                 *)
(* flask_phpbb3.backends.base.UserAcl (src/flask_phpbb3/backends/base.py):  *)
(* the option catalog parser, the permission decoder and the has_privilege  *)
(* / has_privileges queries; the session interface                          *)
(* (src/flask_phpbb3/sessions.py): open_session, the session dictionary and *)
(* save_session; and the extension's per-context backend                    *)
(* (src/flask_phpbb3/extension.py): _backend and teardown.                  *)
(*                                                                         *)
(* Python strings are sequences of one-character strings, so that slicing,  *)
(* startswith, rstrip, splitlines, int(s, 36) and bin(n) are computed as    *)
(* Python computes them.  Python ints are unbounded: a chunk's value is     *)
(* kept as a pair of 16-bit-split words, since 36^6 exceeds TLC's 32-bit    *)
(* integers.                                                                *)
(***************************************************************************)
EXTENDS Integers, Sequences, FiniteSets, TLC

VARIABLES
    raw_acl_options,        \* argument of UserAcl.__init__ / _parse_acl_options
    raw_user_permissions,   \* argument of UserAcl.__init__ / _parse_user_permissions
    pc,                     \* "new", then "ready" or "failed"; "parsed" after a parser run alone
    raised,                 \* the exception the last operation raised, or "none"
    _acl_options,           \* self._acl_options: [local, global: name -> index]
    _acl,                   \* self._acl: str(forum_id) -> decoded characters
    _acl_lookup_cache,      \* self._acl_lookup_cache: str(forum_id) -> option -> bool
    last,                   \* the last query: its arguments and its outcome
    noted,                  \* an earlier query an observer keeps for comparison
    phpbb_sessions,         \* the phpbb_sessions table: session id -> user id
    PHPBB3_BOTLIST,         \* app.config['PHPBB3_BOTLIST']
    phpbb3_cache,           \* app.phpbb3_cache: key -> stored text
    request,                \* the request being served: sid argument, sid cookie, User-Agent
    session,                \* the request's PhpBB3Session: items, modified, _read_only_properties
    kept,                   \* an earlier assignment an observer keeps for comparison
    g,                      \* flask.g of the application context: 'phpbb3_backend' or None
    backends,               \* the backends created in the context: is each one closed
    ctx                     \* the application context: "none", "pushed" or "popped"

\* the decoder's variables
acl_vars == <<raw_acl_options, raw_user_permissions, pc, raised,
              _acl_options, _acl, _acl_lookup_cache, last, noted>>

\* the session interface's variables
session_vars == <<phpbb_sessions, PHPBB3_BOTLIST, phpbb3_cache, request,
                  session, kept>>

\* the extension's variables
backend_vars == <<g, backends, ctx>>

vars == <<acl_vars, session_vars, backend_vars>>

----------------------------------------------------------------------------
(* Program constants.                                                      *)

BitWidth == 31
ChunkLen == 6
Base == 36

(* Bounds of the model.                                                    *)

MaxCatalog == 2     \* records of a catalog after its padding records
MaxLines == 2       \* lines of a raw permission blob
MaxForum == 1       \* forum ids queried: 0..MaxForum
MaxOptions == 2     \* option names passed to one has_privileges call

----------------------------------------------------------------------------
(* Python values and strings.                                              *)

EmptyMap == [k \in {} |-> FALSE]

\* dict d with d[k] = v
Put(d, k, v) == (k :> v) @@ d

\* s[i:] of a Python sequence, i zero-based
From(s, i) == IF i >= Len(s) THEN <<>> ELSE SubSeq(s, i + 1, Len(s))

\* s[i:j] of a Python sequence, zero-based, j exclusive and clipped
Slice(s, i, j) ==
    LET e == IF j > Len(s) THEN Len(s) ELSE j
    IN IF i >= e THEN <<>> ELSE SubSeq(s, i + 1, e)

\* c * n for a one-character string c; a negative count gives ''
Repeat(c, n) == [i \in 1..(IF n < 0 THEN 0 ELSE n) |-> c]

\* str.isspace() of the ASCII characters the model's strings can hold
Whitespace == {" ", "\t", "\n", "\r", "\f"}

\* the line boundaries of str.splitlines() among those characters; '\r\n'
\* is one boundary
LineBreaks == {"\n", "\r", "\f"}

LowerDigits == <<"0", "1", "2", "3", "4", "5", "6", "7", "8", "9",
                 "a", "b", "c", "d", "e", "f", "g", "h", "i", "j", "k", "l", "m",
                 "n", "o", "p", "q", "r", "s", "t", "u", "v", "w", "x", "y", "z">>

UpperDigits == <<"0", "1", "2", "3", "4", "5", "6", "7", "8", "9",
                 "A", "B", "C", "D", "E", "F", "G", "H", "I", "J", "K", "L", "M",
                 "N", "O", "P", "Q", "R", "S", "T", "U", "V", "W", "X", "Y", "Z">>

\* the value of character c as a digit (case-insensitive), -1 when it is none
DigitValue(c) ==
    IF \E i \in 1..Len(LowerDigits) : LowerDigits[i] = c
    THEN (CHOOSE i \in 1..Len(LowerDigits) : LowerDigits[i] = c) - 1
    ELSE IF \E i \in 1..Len(UpperDigits) : UpperDigits[i] = c
    THEN (CHOOSE i \in 1..Len(UpperDigits) : UpperDigits[i] = c) - 1
    ELSE -1

IsDigit(c, base) == DigitValue(c) >= 0 /\ DigitValue(c) < base

RECURSIVE LStrip(_)
LStrip(s) == IF s # <<>> /\ Head(s) \in Whitespace THEN LStrip(Tail(s)) ELSE s

RECURSIVE RStrip(_)
RStrip(s) ==
    IF s # <<>> /\ s[Len(s)] \in Whitespace
    THEN RStrip(SubSeq(s, 1, Len(s) - 1))
    ELSE s

\* str.splitlines(): the lines between line boundaries; a boundary at the
\* very end opens no further line, and '' has no lines
RECURSIVE SplitLines(_)
SplitLines(s) ==
    IF s = <<>> THEN <<>>
    ELSE IF \E i \in 1..Len(s) : s[i] \in LineBreaks
    THEN LET i == CHOOSE k \in 1..Len(s) :
                    /\ s[k] \in LineBreaks
                    /\ \A j \in 1..(k - 1) : s[j] \notin LineBreaks
             crlf == s[i] = "\r" /\ i < Len(s) /\ s[i + 1] = "\n"
         IN <<SubSeq(s, 1, i - 1)>> \o SplitLines(From(s, IF crlf THEN i + 1 ELSE i))
    ELSE <<s>>

----------------------------------------------------------------------------
(* int(sub, 36) and bin(n)[2:].                                            *)

\* A Python int of magnitude hi * 2^16 + lo, negative when neg.
Word == 2 ^ 16

Zero == [hi |-> 0, lo |-> 0]

\* n * base + d on the split magnitude
MulAdd(n, base, d) ==
    LET low == n.lo * base + d
    IN [hi |-> n.hi * base + (low \div Word), lo |-> low % Word]

RECURSIVE Magnitude(_, _, _)
Magnitude(digits, base, acc) ==
    IF digits = <<>> THEN acc
    ELSE Magnitude(Tail(digits), base, MulAdd(acc, base, DigitValue(Head(digits))))

\* The digit part of an int literal: digits, single underscores between them.
WellGrouped(body, base) ==
    /\ body # <<>>
    /\ \A i \in 1..Len(body) : body[i] = "_" \/ IsDigit(body[i], base)
    /\ body[1] # "_"
    /\ body[Len(body)] # "_"
    /\ \A i \in 1..(Len(body) - 1) : ~(body[i] = "_" /\ body[i + 1] = "_")

\* int(sub, base): surrounding whitespace is stripped, one sign is allowed;
\* anything else raises ValueError.
PyInt(sub, base) ==
    LET t == RStrip(LStrip(sub))
        signed == t # <<>> /\ t[1] \in {"+", "-"}
        body == IF signed THEN Tail(t) ELSE t
        digits == SelectSeq(body, LAMBDA c : c # "_")
    IN IF WellGrouped(body, base)
       THEN [ok |-> TRUE,
             neg |-> signed /\ t[1] = "-" /\ Magnitude(digits, base, Zero) # Zero,
             mag |-> Magnitude(digits, base, Zero)]
       ELSE [ok |-> FALSE, neg |-> FALSE, mag |-> Zero]

\* the binary digits of n >= 0, most significant first, no leading zeros
RECURSIVE Binary(_)
Binary(n) ==
    IF n < 2 THEN <<LowerDigits[n + 1]>>
    ELSE Binary(n \div 2) \o <<LowerDigits[(n % 2) + 1]>>

\* the binary digits of n >= 0 in exactly w characters (n < 2^w)
RECURSIVE BinaryFixed(_, _)
BinaryFixed(n, w) ==
    IF w = 0 THEN <<>>
    ELSE BinaryFixed(n \div 2, w - 1) \o <<LowerDigits[(n % 2) + 1]>>

\* bin(n)[2:]: bin gives '0b...' and, for a negative n, '-0b...', so the
\* slice keeps a 'b' in front of a negative number's digits.
BinTail(n) ==
    LET bits == IF n.mag.hi = 0 THEN Binary(n.mag.lo)
                ELSE Binary(n.mag.hi) \o BinaryFixed(n.mag.lo, 16)
    IN IF n.neg THEN <<"b">> \o bits ELSE bits

----------------------------------------------------------------------------
(* UserAcl._parse_user_permissions.                                        *)

\* [perms[j:j + 6] for j in range(0, len(perms), 6)]
RECURSIVE Chunks(_)
Chunks(perms) ==
    IF perms = <<>> THEN <<>>
    ELSE <<Slice(perms, 0, ChunkLen)>> \o Chunks(From(perms, ChunkLen))

\* A faulty padding: one zero too many.
PadTooWide(converted) == Repeat("0", BitWidth + 1 - Len(converted)) \o converted

\* '0' * (31 - len(converted)) + converted
Pad(converted) == Repeat("0", BitWidth - Len(converted)) \o converted

\* One pass of the inner loop: look sub up in seq_cache, or convert and store.
ConvertChunk(seq_cache, sub) ==
    IF sub \in DOMAIN seq_cache
    THEN [ok |-> TRUE, converted |-> seq_cache[sub], seq_cache |-> seq_cache]
    ELSE IF PyInt(sub, Base).ok
    THEN [ok |-> TRUE,
          converted |-> Pad(BinTail(PyInt(sub, Base))),
          seq_cache |-> Put(seq_cache, sub, Pad(BinTail(PyInt(sub, Base))))]
    ELSE [ok |-> FALSE, converted |-> <<>>, seq_cache |-> seq_cache]

\* the inner loop over the chunks of one line
RECURSIVE ConvertLine(_, _, _)
ConvertLine(subs, seq_cache, acc) ==
    IF subs = <<>> THEN [ok |-> TRUE, bits |-> acc, seq_cache |-> seq_cache]
    ELSE LET c == ConvertChunk(seq_cache, Head(subs))
         IN IF c.ok
            THEN ConvertLine(Tail(subs), c.seq_cache, acc \o c.converted)
            ELSE [ok |-> FALSE, bits |-> acc, seq_cache |-> seq_cache]

\* A faulty skip: a blank line does not use up its position.
AfterBlankSame(forum_id) == forum_id

\* `continue` on a blank line: enumerate() still moves to the next position
AfterBlank(forum_id) == forum_id + 1

\* the outer loop: enumerate(split_user_permissions) from forum_id on
RECURSIVE ParseLines(_, _, _, _)
ParseLines(lines, forum_id, seq_cache, acl) ==
    IF lines = <<>> THEN [raised |-> "none", acl |-> acl]
    ELSE IF Head(lines) = <<>>
    THEN ParseLines(Tail(lines), AfterBlank(forum_id), seq_cache, acl)
    ELSE LET r == ConvertLine(Chunks(Head(lines)), seq_cache, <<>>)
         IN IF r.ok
            THEN ParseLines(Tail(lines), forum_id + 1, r.seq_cache,
                            Put(acl, ToString(forum_id), r.bits))
            ELSE [raised |-> "ValueError", acl |-> EmptyMap]

_parse_user_permissions(raw) ==
    ParseLines(SplitLines(RStrip(raw)), 0, EmptyMap, EmptyMap)

----------------------------------------------------------------------------
(* UserAcl._parse_acl_options.                                             *)

\* A Python value of a flag column: [t |-> its type, v |-> its number].
IntValue(n) == [t |-> "int", v |-> n]

\* value == 1: an int, a bool (True == 1) or a float equal to one; None and
\* strings compare unequal
EqualsOne(value) == value.t \in {"int", "bool", "float"} /\ value.v = 1

NoOptions == [local |-> EmptyMap, global |-> EmptyMap]

\* A faulty start: the two counters begin at one.
LoopStartAtOne == [raised |-> "none",
                   acl_options |-> [local |-> EmptyMap, global |-> EmptyMap],
                   local_index |-> 1, global_index |-> 1]

\* The state of the loop: the tables built so far, the two running
\* counters, and the exception that ended it.
LoopStart == [raised |-> "none", acl_options |-> NoOptions,
              local_index |-> 0, global_index |-> 0]

\* A faulty assignment: a name keeps the index of its first flagged record.
AssignFirst(table, name, index) ==
    IF name \in DOMAIN table THEN table ELSE Put(table, name, index)

\* acl_options[scope][opt['auth_option']] = index
Assign(table, name, index) == Put(table, name, index)

\* local_index += 1, global_index += 1
Advance(table, name, index) == index + 1

\* The loop body for one record.  opt[key] of a record that lacks the key
\* raises KeyError.
LoopBody(st, opt) ==
    LET fail == [st EXCEPT !.raised = "KeyError", !.acl_options = NoOptions]
    IN IF "is_local" \notin DOMAIN opt THEN fail
       ELSE IF EqualsOne(opt.is_local) /\ "auth_option" \notin DOMAIN opt THEN fail
       ELSE IF "is_global" \notin DOMAIN opt THEN fail
       ELSE IF EqualsOne(opt.is_global) /\ "auth_option" \notin DOMAIN opt THEN fail
       ELSE
       LET is_local == EqualsOne(opt.is_local)
           is_global == EqualsOne(opt.is_global)
           local == st.acl_options.local
           global == st.acl_options.global
       IN [raised |-> "none",
           acl_options |->
               [local |-> IF is_local
                          THEN Assign(local, opt.auth_option, st.local_index)
                          ELSE local,
                global |-> IF is_global
                           THEN Assign(global, opt.auth_option, st.global_index)
                           ELSE global],
           local_index |-> IF is_local
                           THEN Advance(local, opt.auth_option, st.local_index)
                           ELSE st.local_index,
           global_index |-> IF is_global
                            THEN Advance(global, opt.auth_option, st.global_index)
                            ELSE st.global_index]

\* for opt in raw_acl_options or []: the records in order, up to the first
\* exception
RECURSIVE ParseOptions(_, _)
ParseOptions(opts, st) ==
    IF opts = <<>> \/ st.raised # "none" THEN st
    ELSE ParseOptions(Tail(opts), LoopBody(st, Head(opts)))

\* raw is [t |-> "list", v |-> the records] or [t |-> "none", v |-> <<>>];
\* `raw_acl_options or []` makes None an empty catalog
_parse_acl_options(raw) ==
    LET st == ParseOptions(IF raw.t = "list" THEN raw.v ELSE <<>>, LoopStart)
    IN [raised |-> st.raised, acl_options |-> st.acl_options]

----------------------------------------------------------------------------
(* UserAcl.has_privilege and UserAcl.has_privileges.                       *)

\* the width of the all-zero array used for a forum without an entry
DefaultBits == 31

\* bool(int(permission)) of a one-character string; int raises ValueError
\* for a character that is no decimal digit
BoolInt(permission) ==
    [ok |-> IsDigit(permission, 10), value |-> DigitValue(permission) > 0]

\* cache[str_forum_id][option] = value
Store(cache, str_forum_id, option, value) ==
    Put(cache, str_forum_id,
        Put(IF str_forum_id \in DOMAIN cache THEN cache[str_forum_id] ELSE EmptyMap,
            option, value))

\* privilege.startswith('!') and the option name left without the marker
ParseNegation(privilege) ==
    LET negated == privilege # <<>> /\ Head(privilege) = "!"
    IN [negated |-> negated, option |-> IF negated THEN Tail(privilege) ELSE privilege]

\* A guarded lookup acl[index] of has_privilege: done says the guard held,
\* in_range that no IndexError was passed over, bit is bool(int(character)).
Lookup(done, array, index) ==
    [done |-> done,
     in_range |-> done /\ index < Len(array),
     bit |-> IF done /\ index < Len(array) THEN BoolInt(array[index + 1])
             ELSE [ok |-> TRUE, value |-> FALSE]]

\* A faulty global check: reads the character after the option's index.
GlobalLookupOffByOne(acl_options, acl, option) ==
    IF option \in DOMAIN acl_options.global /\ "0" \in DOMAIN acl
    THEN Lookup(TRUE, acl["0"], acl_options.global[option] + 1)
    ELSE Lookup(FALSE, <<>>, 0)

\* the global check: the option's global index in forum 0's array
GlobalLookup(acl_options, acl, option) ==
    IF option \in DOMAIN acl_options.global /\ "0" \in DOMAIN acl
    THEN Lookup(TRUE, acl["0"], acl_options.global[option])
    ELSE Lookup(FALSE, <<>>, 0)

\* A faulty local check: performed for forum '0' as well.
LocalLookupAtAnyForum(acl_options, acl, option, str_forum_id) ==
    IF option \in DOMAIN acl_options.local
    THEN Lookup(TRUE,
                IF str_forum_id \in DOMAIN acl THEN acl[str_forum_id]
                ELSE Repeat("0", DefaultBits),
                acl_options.local[option])
    ELSE Lookup(FALSE, <<>>, 0)

\* the local check: the option's local index in the forum's array, which
\* is 31 zeros for a forum without an entry; never for forum '0'
LocalLookup(acl_options, acl, option, str_forum_id) ==
    IF str_forum_id # "0" /\ option \in DOMAIN acl_options.local
    THEN Lookup(TRUE,
                IF str_forum_id \in DOMAIN acl THEN acl[str_forum_id]
                ELSE Repeat("0", DefaultBits),
                acl_options.local[option])
    ELSE Lookup(FALSE, <<>>, 0)

\* A faulty merge: the local bit replaces the cached result (= for |=).
LocalMergeOverride(cached, value) == value

\* cache[str_forum_id][option] |= value
LocalMerge(cached, value) == cached \/ value

\* A faulty result: the negation marker is stripped and then forgotten.
OutputIgnoringNegation(negated, cached) == cached

\* negated ^ cache[str_forum_id][option]
Output(negated, cached) == negated # cached

\* A faulty memoization: an option already in the forum's cache is answered
\* with the cached value, whatever the negation of the query; only an
\* option not yet cached is computed.
AnswerFromCache(acl_options, acl, cache, privilege, forum_id) ==
    LET str_forum_id == ToString(forum_id)
        negated == ParseNegation(privilege).negated
        option == ParseNegation(privilege).option
        global == GlobalLookup(acl_options, acl, option)
        local == LocalLookup(acl_options, acl, option, str_forum_id)
        value == (global.in_range /\ global.bit.value)
                    \/ (local.in_range /\ local.bit.value)
    IN IF str_forum_id \in DOMAIN cache /\ option \in DOMAIN cache[str_forum_id]
       THEN [cache |-> cache, raised |-> "none",
             output |-> cache[str_forum_id][option]]
       ELSE IF (global.in_range /\ ~global.bit.ok) \/ (local.in_range /\ ~local.bit.ok)
       THEN [cache |-> cache, raised |-> "ValueError", output |-> FALSE]
       ELSE [cache |-> Store(cache, str_forum_id, option, value), raised |-> "none",
             output |-> Output(negated, value)]

\* One call on a decoder with tables acl_options, arrays acl and lookup cache
\* cache: the cache it leaves, what it raised, what it returned.
has_privilege(acl_options, acl, cache, privilege, forum_id) ==
    LET str_forum_id == ToString(forum_id)
        negated == ParseNegation(privilege).negated
        option == ParseNegation(privilege).option
        c0 == Store(cache, str_forum_id, option, FALSE)
        global == GlobalLookup(acl_options, acl, option)
        c1 == IF global.in_range /\ global.bit.ok
              THEN Store(c0, str_forum_id, option, global.bit.value)
              ELSE c0
        local == LocalLookup(acl_options, acl, option, str_forum_id)
        c2 == IF local.in_range /\ local.bit.ok
              THEN Store(c1, str_forum_id, option,
                         LocalMerge(c1[str_forum_id][option], local.bit.value))
              ELSE c1
    IN IF global.in_range /\ ~global.bit.ok
       THEN [cache |-> c0, raised |-> "ValueError", output |-> FALSE]
       ELSE IF local.in_range /\ ~local.bit.ok
       THEN [cache |-> c1, raised |-> "ValueError", output |-> FALSE]
       ELSE [cache |-> c2, raised |-> "none",
             output |-> Output(negated, c2[str_forum_id][option])]

\* A faulty accumulation: every option must hold (&= for |=).
AccumulateAll(output, result) == output /\ result

\* output |= <the call's result>
Accumulate(output, result) == output \/ result

\* the loop of has_privileges over the options, in order
RECURSIVE PrivilegesLoop(_, _, _, _, _, _)
PrivilegesLoop(acl_options, acl, cache, privileges, forum_id, output) ==
    IF privileges = <<>>
    THEN [cache |-> cache, raised |-> "none", output |-> output]
    ELSE LET r == has_privilege(acl_options, acl, cache, Head(privileges), forum_id)
         IN IF r.raised # "none"
            THEN [cache |-> r.cache, raised |-> r.raised, output |-> FALSE]
            ELSE PrivilegesLoop(acl_options, acl, r.cache, Tail(privileges),
                                forum_id, Accumulate(output, r.output))

has_privileges(acl_options, acl, cache, privileges, forum_id) ==
    PrivilegesLoop(acl_options, acl, cache, privileges, forum_id, FALSE)

----------------------------------------------------------------------------
(* The inputs the model draws from.                                        *)

SeqsUpTo(S, n) == UNION {[1..k -> S] : k \in 0..n}

m_edit == <<"m", "_", "e", "d", "i", "t">>
m_delete == <<"m", "_", "d", "e", "l", "e", "t", "e">>
a_pad == <<"a", "_", "p", "a", "d">>

Names == {m_edit, m_delete}

\* what a query passes: an option name, bare or negated
Privileges == Names \cup {<<"!">> \o n : n \in Names}

ForumIds == 0..MaxForum

OptionRecord(name, is_local, is_global) ==
    [auth_option |-> name, is_local |-> IntValue(is_local),
     is_global |-> IntValue(is_global)]

WellFormedRecords ==
    {OptionRecord(n, l, gl) : n \in Names, l \in {0, 1}, gl \in {0, 1}}

\* Chunks of a raw blob: m_edit's grant of the integration test, a full
\* 31-bit group, and a chunk int() reads as a negative number.
HRA0HS == <<"H", "R", "A", "0", "H", "S">>
AllOnes == <<"z", "i", "k", "0", "z", "j">>
Signed == <<"-", "z", "z", "z", "z", "z">>

\* the index at which Signed's group holds the 'b' of bin()
SignIndex == (CHOOSE i \in 1..BitWidth : Pad(BinTail(PyInt(Signed, Base)))[i] = "b") - 1

\* A line is blank, one chunk (31 characters: bit 0 set, the others clear)
\* or two chunks (62 characters: 31 ones, then Signed's group).
Lines == {<<>>, HRA0HS, AllOnes \o Signed}

\* A catalog is the records under test, after none or some records of a
\* local-and-global padding option: the padding moves the indices of the
\* options after it past the end of a one-chunk line, onto the 'b' of
\* Signed's group in a two-chunk line.
PadSizes == {0, BitWidth + SignIndex}

Padded(k, tail) ==
    [t |-> "list", v |-> [i \in 1..k |-> OptionRecord(a_pad, 1, 1)] \o tail]

Catalogs ==
    {Padded(k, tail) : k \in PadSizes, tail \in SeqsUpTo(WellFormedRecords, MaxCatalog)}

RECURSIVE JoinLines(_)
JoinLines(ls) ==
    IF ls = <<>> THEN <<>>
    ELSE IF Len(ls) = 1 THEN Head(ls)
    ELSE Head(ls) \o <<"\n">> \o JoinLines(Tail(ls))

Blobs == {JoinLines(ls) : ls \in SeqsUpTo(Lines, MaxLines)}

NoCall == [op |-> "none", privileges |-> <<>>, forum_id |-> 0,
           raised |-> "none", output |-> FALSE]

----------------------------------------------------------------------------
(* The decoder's life: UserAcl(raw_acl_options, raw_user_permissions),     *)
(* then any number of queries.                                             *)

\* no request is being served
NoRequest == [sid_arg |-> <<>>, sid_cookie |-> <<>>, user_agent |-> <<>>]

NoSession == [open |-> FALSE, items |-> EmptyMap, modified |-> FALSE,
              _read_only_properties |-> {}]

\* the observer keeps nothing; 'spoiled' names what has since happened that
\* may remove or replace what it keeps
NoAssignment == [session_id |-> <<>>, key |-> "", value |-> [t |-> "none", v |-> <<>>],
                 saved |-> FALSE, spoiled |-> "no"]

\* the session interface before its first request, with no stored phpBB3
\* session and nothing in the cache
SessionIdle ==
    /\ phpbb_sessions = EmptyMap
    /\ PHPBB3_BOTLIST = <<>>
    /\ phpbb3_cache = EmptyMap
    /\ request = NoRequest
    /\ session = NoSession
    /\ kept = NoAssignment

\* no application context
BackendIdle ==
    /\ g = 0
    /\ backends = <<>>
    /\ ctx = "none"

\* a decoder about to be constructed
AclInit(catalogs, blobs) ==
    /\ raw_acl_options \in catalogs
    /\ raw_user_permissions \in blobs
    /\ pc = "new"
    /\ raised = "none"
    /\ _acl_options = NoOptions
    /\ _acl = EmptyMap
    /\ _acl_lookup_cache = EmptyMap
    /\ last = NoCall
    /\ noted = NoCall

InitWith(catalogs, blobs) ==
    /\ AclInit(catalogs, blobs)
    /\ SessionIdle
    /\ BackendIdle

Init == InitWith(Catalogs, Blobs)

\* The arguments of a constructor call that has returned or raised: the
\* decoder keeps the tables and arrays, not what they were parsed from.
Consumed == [t |-> "consumed", v |-> <<>>]

\* UserAcl.__init__: an exception of either parser leaves no decoder
Construct ==
    /\ pc = "new"
    /\ LET options == _parse_acl_options(raw_acl_options)
           acl == _parse_user_permissions(raw_user_permissions)
       IN IF options.raised # "none"
          THEN /\ pc' = "failed"
               /\ raised' = options.raised
               /\ UNCHANGED <<_acl_options, _acl>>
          ELSE IF acl.raised # "none"
          THEN /\ pc' = "failed"
               /\ raised' = acl.raised
               /\ UNCHANGED <<_acl_options, _acl>>
          ELSE /\ pc' = "ready"
               /\ raised' = "none"
               /\ _acl_options' = options.acl_options
               /\ _acl' = acl.acl
    /\ _acl_lookup_cache' = EmptyMap
    /\ raw_acl_options' = Consumed
    /\ raw_user_permissions' = <<>>
    /\ UNCHANGED <<last, noted, session_vars, backend_vars>>

\* one has_privilege call on the constructed decoder
QueryOne(privilege, forum_id) ==
    /\ pc = "ready"
    /\ LET r == has_privilege(_acl_options, _acl, _acl_lookup_cache,
                              privilege, forum_id)
       IN /\ _acl_lookup_cache' = r.cache
          /\ raised' = r.raised
          /\ last' = [op |-> "has_privilege", privileges |-> <<privilege>>,
                      forum_id |-> forum_id, raised |-> r.raised,
                      output |-> r.output]
    /\ UNCHANGED <<raw_acl_options, raw_user_permissions, pc, _acl_options, _acl,
                   session_vars, backend_vars>>

HasPrivilege ==
    /\ \E privilege \in Privileges, forum_id \in ForumIds :
          QueryOne(privilege, forum_id)
    /\ UNCHANGED noted

HasPrivileges ==
    /\ pc = "ready"
    /\ \E privileges \in SeqsUpTo(Privileges, MaxOptions), forum_id \in ForumIds :
         LET r == has_privileges(_acl_options, _acl, _acl_lookup_cache,
                                 privileges, forum_id)
         IN /\ _acl_lookup_cache' = r.cache
            /\ raised' = r.raised
            /\ last' = [op |-> "has_privileges", privileges |-> privileges,
                        forum_id |-> forum_id, raised |-> r.raised,
                        output |-> r.output]
    /\ UNCHANGED <<raw_acl_options, raw_user_permissions, pc, _acl_options, _acl,
                   noted, session_vars, backend_vars>>

Next == Construct \/ HasPrivilege

Spec == Init /\ [][Next]_vars

\* The same life with has_privileges as the query: catalogs one record
\* shorter, a padded catalog only before an option flagged both ways, and
\* blobs without blank lines.
ManyCatalogs ==
    {Padded(0, tail) : tail \in SeqsUpTo(WellFormedRecords, MaxCatalog - 1)}
        \cup {Padded(BitWidth + SignIndex, <<OptionRecord(n, 1, 1)>>) : n \in Names}

ManyBlobs == {JoinLines(ls) : ls \in SeqsUpTo(Lines \ {<<>>}, MaxLines)}

InitMany == InitWith(ManyCatalogs, ManyBlobs)

NextMany == Construct \/ HasPrivileges

SpecMany == InitMany /\ [][NextMany]_vars

----------------------------------------------------------------------------
(* What the properties below read off a state.                             *)

IsNegated(privilege) == Len(privilege) > 0 /\ privilege[1] = "!"

BareName(privilege) ==
    IF IsNegated(privilege) THEN SubSeq(privilege, 2, Len(privilege)) ELSE privilege

Returned(call) == call.raised = "none"

HasEntry(forum_id) == ToString(forum_id) \in DOMAIN _acl

\* forum_id's array holds bits only (or the forum has no array)
BitArray(forum_id) ==
    HasEntry(forum_id) =>
        \A k \in 1..Len(_acl[ToString(forum_id)]) :
            _acl[ToString(forum_id)][k] \in {"0", "1"}

\* the forum's array, or 31 zero bits
ForumArray(forum_id) ==
    IF HasEntry(forum_id) THEN _acl[ToString(forum_id)] ELSE [k \in 1..31 |-> "0"]

\* bit i of an array is set; a bit beyond its end is not
BitAt(array, i) == i < Len(array) /\ array[i + 1] = "1"

GlobalGrant(option) ==
    /\ option \in DOMAIN _acl_options.global
    /\ HasEntry(0)
    /\ BitAt(_acl["0"], _acl_options.global[option])

LocalGrant(option, forum_id) ==
    /\ forum_id # 0
    /\ option \in DOMAIN _acl_options.local
    /\ BitAt(ForumArray(forum_id), _acl_options.local[option])

----------------------------------------------------------------------------
(* C1. Global check: when the queried option has a global index i and      *)
(* forum 0's array is longer than i, has_privilege(option) at forum 0      *)
(* returns true exactly when character i of that array is '1'; the         *)
(* negated query of an option whose bit is '0' or '1' returns the opposite.*)
C1_GlobalCheck ==
    (last.op = "has_privilege" /\ last.forum_id = 0) =>
        LET privilege == last.privileges[1]
            option == BareName(privilege)
        IN (/\ option \in DOMAIN _acl_options.global
            /\ HasEntry(0)
            /\ Len(_acl["0"]) > _acl_options.global[option]) =>
               LET character == _acl["0"][_acl_options.global[option] + 1]
               IN IF IsNegated(privilege)
                  THEN character \in {"0", "1"} =>
                          (Returned(last) /\ last.output = (character # "1"))
                  ELSE (Returned(last) /\ last.output) <=> (character = "1")

\* The scenario of the integration test: m_edit and m_delete both global,
\* forum 0 with bit 0 set and bit 1 clear; m_edit was answered true,
\* m_delete false, and '!m_edit' is answered false.
C1_Witness ==
    /\ pc = "ready"
    /\ _acl_options = [local |-> EmptyMap, global |-> (m_edit :> 0 @@ m_delete :> 1)]
    /\ HasEntry(0) /\ _acl["0"][1] = "1" /\ _acl["0"][2] = "0"
    /\ "0" \in DOMAIN _acl_lookup_cache
    /\ _acl_lookup_cache["0"] = (m_edit :> TRUE @@ m_delete :> FALSE)
    /\ last = [op |-> "has_privilege", privileges |-> << <<"!">> \o m_edit >>,
               forum_id |-> 0, raised |-> "none", output |-> FALSE]

NegationPair ==
    /\ last.op = "has_privilege" /\ last'.op = "has_privilege"
    /\ last.forum_id = last'.forum_id
    /\ BareName(last.privileges[1]) = BareName(last'.privileges[1])
    /\ IsNegated(last.privileges[1]) # IsNegated(last'.privileges[1])

C5_NeverRaises ==
    last.op = "has_privilege" =>
        LET privilege == last.privileges[1]
        IN /\ Returned(last)
           /\ (/\ ~GlobalGrant(BareName(privilege))
               /\ ~LocalGrant(BareName(privilege), last.forum_id)) =>
                  last.output = IsNegated(privilege)

\* has_privilege(privilege, forum_id) is true: the option's global bit or,
\* at a forum other than 0, its local bit is set, or neither is and the
\* query is negated
Holds(privilege, forum_id) ==
    IsNegated(privilege) #
        (GlobalGrant(BareName(privilege)) \/ LocalGrant(BareName(privilege), forum_id))

----------------------------------------------------------------------------
(* The catalog parser on its own: UserAcl._parse_acl_options is a class    *)
(* method, applied here to catalogs with repeated names, with flag values  *)
(* other than 0 and 1, and with records that lack a column.                *)

MaxRecords == 3     \* records of a catalog given to the parser alone

NoneValue == [t |-> "none", v |-> 0]
\* the str that spells the number n
StrValue(n) == [t |-> "str", v |-> n]
BoolValue(b) == [t |-> "bool", v |-> IF b THEN 1 ELSE 0]

\* Flag values that are neither 0 nor 1: None, 2, '1' and True.
OddRecords ==
    {[auth_option |-> m_edit, is_local |-> NoneValue, is_global |-> IntValue(1)],
     [auth_option |-> m_delete, is_local |-> IntValue(1), is_global |-> IntValue(2)],
     [auth_option |-> m_edit, is_local |-> StrValue(1), is_global |-> NoneValue],
     [auth_option |-> m_delete, is_local |-> BoolValue(TRUE), is_global |-> IntValue(0)]}

\* Records without the is_local, the is_global or the auth_option column.
ShortRecords ==
    {[auth_option |-> m_edit, is_global |-> IntValue(1)],
     [auth_option |-> m_delete, is_local |-> IntValue(1)],
     [is_local |-> IntValue(0), is_global |-> IntValue(0)]}

CatalogRecords == WellFormedRecords \cup OddRecords \cup ShortRecords

\* None, or a list of up to MaxRecords records
ParserCatalogs ==
    {[t |-> "none", v |-> <<>>]}
        \cup {[t |-> "list", v |-> c] : c \in SeqsUpTo(CatalogRecords, MaxRecords)}

InitCatalog == InitWith(ParserCatalogs, {<<>>})

\* acl_options = UserAcl._parse_acl_options(raw_acl_options); the argument
\* stays in the state for the properties to read
ParseCatalog ==
    /\ pc = "new"
    /\ LET r == _parse_acl_options(raw_acl_options)
       IN /\ raised' = r.raised
          /\ _acl_options' = r.acl_options
    /\ pc' = "parsed"
    /\ UNCHANGED <<raw_acl_options, raw_user_permissions, _acl,
                   _acl_lookup_cache, last, noted, session_vars, backend_vars>>

NextCatalog == ParseCatalog

SpecCatalog == InitCatalog /\ [][NextCatalog]_vars

----------------------------------------------------------------------------
(* What the catalog properties read off a state of SpecCatalog.            *)

Scopes == {"local", "global"}

Column == [local |-> "is_local", global |-> "is_global"]

\* the records given to the parser, in input order
Records == IF raw_acl_options.t = "list" THEN raw_acl_options.v ELSE <<>>

\* the parser has returned its tables
Parsed == pc = "parsed" /\ raised = "none"

\* record i is flagged for the scope: its column holds 1 (or True)
Flagged(i, scope) ==
    /\ Column[scope] \in DOMAIN Records[i]
    /\ Records[i][Column[scope]] \in {IntValue(1), BoolValue(TRUE)}

FlaggedRecords(scope) == {i \in 1..Len(Records) : Flagged(i, scope)}

\* where the name is flagged for the scope
Positions(scope, name) ==
    {i \in FlaggedRecords(scope) :
        "auth_option" \in DOMAIN Records[i] /\ Records[i].auth_option = name}

Last(positions) == CHOOSE i \in positions : \A j \in positions : j <= i

NoRepeats(scope) == \A name \in Names : Cardinality(Positions(scope, name)) <= 1

\* the index values are exactly 0..n-1 for the n names of the table
Dense(table) ==
    {table[name] : name \in DOMAIN table} = 0..(Cardinality(DOMAIN table) - 1)

\* a name flagged later in the input holds the larger index
InInputOrder(scope) ==
    \A a, b \in DOMAIN _acl_options[scope] :
        Last(Positions(scope, a)) < Last(Positions(scope, b))
            => _acl_options[scope][a] < _acl_options[scope][b]

FlaggedNames(scope) == {name \in Names : Positions(scope, name) # {}}

\* C7, as the specification states it: whatever the option sequence, the
\* index values of each table are the dense range 0..n-1 for its n names,
\* in input order.
C7_Dense ==
    Parsed => \A scope \in Scopes :
                 /\ DOMAIN _acl_options[scope] = FlaggedNames(scope)
                 /\ Dense(_acl_options[scope])
                 /\ InInputOrder(scope)

\* C7, amended: when the parser returns and no option name is flagged more
\* than once for a scope, that scope's table holds the flagged names with
\* the dense indices 0..n-1 in input order.
C7_DenseWithoutRepeats ==
    Parsed => \A scope \in Scopes :
                 NoRepeats(scope) =>
                    /\ DOMAIN _acl_options[scope] = FlaggedNames(scope)
                    /\ Dense(_acl_options[scope])
                    /\ InInputOrder(scope)

\* two names indexed in each scope, in opposite orders, past an unflagged
\* record
C7_Witness ==
    /\ Parsed
    /\ \A scope \in Scopes :
          NoRepeats(scope) /\ Cardinality(DOMAIN _acl_options[scope]) = 2
    /\ _acl_options.local[m_edit] = 1
    /\ _acl_options.global[m_edit] = 0
    /\ Len(Records) = MaxRecords

\* C8: a name flagged more than once for a scope is mapped to the counter
\* value of its last flagged record, the counter having advanced once for
\* every record flagged for the scope before it, repeats included.
C8_LastOccurrenceWins ==
    Parsed => \A scope \in Scopes, name \in Names :
                 Cardinality(Positions(scope, name)) >= 2 =>
                    /\ name \in DOMAIN _acl_options[scope]
                    /\ _acl_options[scope][name] =
                          Cardinality({i \in FlaggedRecords(scope) :
                                          i < Last(Positions(scope, name))})

\* a name flagged first and last, another name flagged in between
C8_Witness ==
    /\ Parsed
    /\ \E scope \in Scopes :
          /\ Positions(scope, m_edit) = {1, 3}
          /\ Positions(scope, m_delete) = {2}
          /\ _acl_options[scope][m_edit] = 2
          /\ _acl_options[scope][m_delete] = 1

\* C9: the parser has no error outcome; a flag that is absent or is not 1
\* gives the record no index in that scope, and an empty or missing catalog
\* gives two empty tables.
C9_NoErrorOutcome ==
    pc = "parsed" =>
        /\ raised = "none"
        /\ \A scope \in Scopes : DOMAIN _acl_options[scope] = FlaggedNames(scope)
        /\ Records = <<>> => _acl_options = [local |-> EmptyMap, global |-> EmptyMap]

----------------------------------------------------------------------------
(* The permission decoder on its own: UserAcl._parse_user_permissions is a *)
(* class method, applied here to blobs of base-36 chunks: full and short   *)
(* ones, values up to and past 2^31 - 1, chunks met again within a line    *)
(* and on a later line.                                                    *)

MaxChunks == 2      \* chunks of the first line of a blob given to the decoder alone

\* 2^31 and 36^6 - 1
Over == <<"z", "i", "k", "0", "z", "k">>
Most == <<"z", "z", "z", "z", "z", "z">>

FullChunks == {HRA0HS, AllOnes, Over, Most, <<"0", "0", "0", "0", "1", "Z">>}

ShortChunks == {<<"1">>, <<"z", "z", "z">>}

RECURSIVE Flatten(_)
Flatten(ss) == IF ss = <<>> THEN <<>> ELSE Head(ss) \o Flatten(Tail(ss))

\* full chunks, then perhaps a short one: MaxChunks chunks at most
ChunkLines ==
    {Flatten(fs) \o t : fs \in SeqsUpTo(FullChunks, MaxChunks - 1),
                        t \in {<<>>} \cup FullChunks \cup ShortChunks}

LaterLines == {<<>>, AllOnes, Over}

DecoderBlobs ==
    {JoinLines(<<l>> \o ls) : l \in ChunkLines, ls \in SeqsUpTo(LaterLines, MaxLines - 1)}

InitDecode == InitWith({[t |-> "none", v |-> <<>>]}, DecoderBlobs)

\* acl = UserAcl._parse_user_permissions(raw_user_permissions); the argument
\* stays in the state for the properties to read
ParsePermissions ==
    /\ pc = "new"
    /\ LET r == _parse_user_permissions(raw_user_permissions)
       IN /\ raised' = r.raised
          /\ _acl' = r.acl
    /\ pc' = "parsed"
    /\ UNCHANGED <<raw_acl_options, raw_user_permissions, _acl_options,
                   _acl_lookup_cache, last, noted, session_vars, backend_vars>>

NextDecode == ParsePermissions

SpecDecode == InitDecode /\ [][NextDecode]_vars

----------------------------------------------------------------------------
(* What the decoder properties read off a state of SpecDecode.             *)

\* the lines of the blob, trailing whitespace dropped
BlobLines == SplitLines(RStrip(raw_user_permissions))

NumChunks(line) == (Len(line) + ChunkLen - 1) \div ChunkLen

\* chunk k of a line, k from 1
ChunkAt(line, k) ==
    SubSeq(line, ChunkLen * (k - 1) + 1,
           IF ChunkLen * k > Len(line) THEN Len(line) ELSE ChunkLen * k)

RECURSIVE LexLE(_, _)
LexLE(a, b) ==
    \/ a = <<>>
    \/ Head(a) < Head(b)
    \/ Head(a) = Head(b) /\ LexLE(Tail(a), Tail(b))

\* the chunk's base-36 value is below 2^31: it is short, or its digits
\* are at most those of zik0zj
BelowLimit(chunk) ==
    \/ Len(chunk) < ChunkLen
    \/ LexLE([i \in 1..Len(chunk) |-> DigitValue(chunk[i])],
             [i \in 1..Len(AllOnes) |-> DigitValue(AllOnes[i])])

\* the base-36 value of a chunk below the limit
RECURSIVE Value36(_)
Value36(chunk) ==
    IF chunk = <<>> THEN 0
    ELSE Value36(SubSeq(chunk, 1, Len(chunk) - 1)) * Base
            + DigitValue(chunk[Len(chunk)])

\* the binary form of n, zero-padded on the left to 31 characters
BitGroup(n) ==
    [j \in 1..BitWidth |->
        IF (n \div 2 ^ (BitWidth - j)) % 2 = 1 THEN "1" ELSE "0"]

\* the group of chunk k within a forum's array, were all groups 31 wide
GroupAt(array, k) == SubSeq(array, BitWidth * (k - 1) + 1, BitWidth * k)

\* the forum of line i holds, for each chunk, its padded binary form
FixedWidth(i) ==
    LET line == BlobLines[i]
        str_forum_id == ToString(i - 1)
    IN /\ str_forum_id \in DOMAIN _acl
       /\ Len(_acl[str_forum_id]) = BitWidth * NumChunks(line)
       /\ \A k \in 1..NumChunks(line) :
             /\ BelowLimit(ChunkAt(line, k))
             /\ GroupAt(_acl[str_forum_id], k) = BitGroup(Value36(ChunkAt(line, k)))

\* C10, as the specification states it: every chunk of one to six base-36
\* characters gives its binary form padded to exactly 31 characters, so
\* every forum's array is 31 characters per chunk.
C10_FixedWidth ==
    pc = "parsed" =>
        /\ raised = "none"
        /\ \A i \in 1..Len(BlobLines) : BlobLines[i] # <<>> => FixedWidth(i)

\* C10, amended: every chunk whose base-36 value is below 2^31 gives its
\* binary form padded to exactly 31 characters, computed or taken from the
\* chunk cache; a forum all of whose chunks are such has an array of 31
\* characters per chunk.
C10_FixedWidthBelowLimit ==
    pc = "parsed" =>
        /\ raised = "none"
        /\ \A i \in 1..Len(BlobLines) :
              (/\ BlobLines[i] # <<>>
               /\ \A k \in 1..NumChunks(BlobLines[i]) :
                     BelowLimit(ChunkAt(BlobLines[i], k)))
                  => FixedWidth(i)

\* a full and a short chunk on the first line, the full one again on the
\* second
C10_Witness ==
    /\ pc = "parsed"
    /\ raw_user_permissions = JoinLines(<<AllOnes \o <<"1">>, AllOnes>>)
    /\ Len(_acl["0"]) = 2 * BitWidth
    /\ _acl["1"] = [j \in 1..BitWidth |-> "1"]

----------------------------------------------------------------------------
(* The permission decoder on blobs of several lines: blank lines at the    *)
(* start, in the middle and at the end, '\n' and '\r\n' line ends, and     *)
(* whitespace after the last line.                                         *)

MaxRows == 3        \* lines of a blob whose line positions are decoded

RowTexts == {<<>>, HRA0HS, AllOnes \o <<"1">>}

LineEnds == {<<"\n">>, <<"\r", "\n">>}

Trailers == {<<>>, <<" ">>, <<"\n", "\t", "\n">>}

\* the rows, each but the last followed by the line end
RECURSIVE JoinRows(_, _)
JoinRows(rows, end) ==
    IF rows = <<>> THEN <<>>
    ELSE IF Len(rows) = 1 THEN Head(rows)
    ELSE Head(rows) \o end \o JoinRows(Tail(rows), end)

RowBlobs ==
    {JoinRows(rows, end) \o trailer :
        rows \in SeqsUpTo(RowTexts, MaxRows), end \in LineEnds, trailer \in Trailers}

InitRows == InitWith({[t |-> "none", v |-> <<>>]}, RowBlobs)

SpecRows == InitRows /\ [][NextDecode]_vars

----------------------------------------------------------------------------
(* What the line-position property reads off a state of SpecRows.          *)

\* the blob up to its last character that is no whitespace
Trimmed ==
    LET inked == {i \in 1..Len(raw_user_permissions) :
                     raw_user_permissions[i] \notin Whitespace}
    IN IF inked = {} THEN <<>>
       ELSE SubSeq(raw_user_permissions, 1,
                   CHOOSE i \in inked : \A j \in inked : j <= i)

\* character i of s ends a line ('\r' before '\n' leaves that to the '\n')
EndsLine(s, i) ==
    \/ s[i] \in {"\n", "\f"}
    \/ s[i] = "\r" /\ ~(i < Len(s) /\ s[i + 1] = "\n")

\* the zero-based position of the line that character i of s is on
LinePosition(s, i) == Cardinality({j \in 1..(i - 1) : EndsLine(s, j)})

\* the characters of s on the line at position k
Inked(s, k) ==
    {i \in 1..Len(s) : s[i] \notin {"\n", "\r", "\f"} /\ LinePosition(s, i) = k}

\* the positions of the lines of s that are not blank
InkedPositions(s) == {k \in 0..Len(s) : Inked(s, k) # {}}

\* the text of the line of s at position k, which is not blank
LineAt(s, k) ==
    SubSeq(s, CHOOSE i \in Inked(s, k) : \A j \in Inked(s, k) : i <= j,
              CHOOSE i \in Inked(s, k) : \A j \in Inked(s, k) : j <= i)

\* C11: the decoder keys each array by the zero-based position of its line
\* in the blob: the entries are those of the lines that are not blank, each
\* holding what its line decodes to; a blank line gives no entry and shifts
\* no later line, and the whitespace that ends the blob gives no entry.
C11_LinePositions ==
    (pc = "parsed" /\ raised = "none") =>
        /\ DOMAIN _acl = {ToString(k) : k \in InkedPositions(Trimmed)}
        /\ \A k \in InkedPositions(Trimmed) :
              _acl[ToString(k)] = _parse_user_permissions(LineAt(Trimmed, k)).acl["0"]

\* a blank line between two others, '\r\n' line ends, whitespace after the
\* last line: entries for positions 0 and 2 only
C11_Witness ==
    /\ pc = "parsed"
    /\ raw_user_permissions =
          HRA0HS \o <<"\r", "\n", "\r", "\n">> \o AllOnes \o <<"1", "\n", "\t", "\n">>
    /\ DOMAIN _acl = {"0", "2"}
    /\ Len(_acl["0"]) = BitWidth
    /\ Len(_acl["2"]) = 2 * BitWidth

----------------------------------------------------------------------------
(* The decoder's life on blobs whose chunks hold characters that are no    *)
(* base-36 digits: '!', a sign, an underscore, a space.                    *)

Bang == <<"H", "R", "A", "0", "H", "!">>
Plus == <<"+", "z", "z", "z", "z", "z">>
Underscore == <<"1", "_", "0">>
LeadingSpace == <<" ", "1">>
InnerSpace == <<"1", " ", "1">>

ForeignLines == {HRA0HS, Bang, Signed, Plus, Underscore, LeadingSpace, InnerSpace}

ForeignBlobs == {JoinLines(ls) : ls \in SeqsUpTo(ForeignLines, MaxLines)}

ForeignCatalogs ==
    {Padded(k, <<OptionRecord(m_edit, 1, 1)>>) : k \in {0, SignIndex}}

InitForeign == InitWith(ForeignCatalogs, ForeignBlobs)

SpecForeign == InitForeign /\ [][Next]_vars

\* the characters [0-9a-zA-Z]
Alphanumeric ==
    {LowerDigits[i] : i \in 1..Len(LowerDigits)}
        \cup {UpperDigits[i] : i \in 1..Len(UpperDigits)}

\* some chunk of the blob holds a character outside [0-9a-zA-Z]
HasForeign ==
    \E i \in 1..Len(Trimmed) :
        Trimmed[i] \notin {"\n", "\r", "\f"} /\ Trimmed[i] \notin Alphanumeric

\* C12: constructing the decoder on a blob in which a chunk holds a
\* character outside [0-9a-zA-Z] fails with the decode error, and no bit
\* arrays are kept for the blob.
C12_ForeignCharacterFails ==
    [][(pc = "new" /\ HasForeign) =>
          (pc' = "failed" /\ raised' = "ValueError" /\ _acl' = EmptyMap)]_vars

----------------------------------------------------------------------------
(* The decoder's life under an observer who keeps one answered             *)
(* has_privilege call, at will, to compare later calls with it; between    *)
(* the two come has_privilege and has_privileges calls of any options at   *)
(* any forums.                                                             *)

OneScopeEach == <<OptionRecord(m_edit, 1, 0), OptionRecord(m_delete, 0, 1)>>

MemoCatalogs == {Padded(k, OneScopeEach) : k \in {0, SignIndex}}

MemoBlobs == {JoinLines(<<l, HRA0HS>>) : l \in {HRA0HS, Signed}}

InitMemo == InitWith(MemoCatalogs, MemoBlobs)

\* has_privilege, its call kept by the observer or not
HasPrivilegeNoted ==
    \E privilege \in Privileges, forum_id \in ForumIds :
        /\ QueryOne(privilege, forum_id)
        /\ noted' \in IF noted = NoCall /\ last'.raised = "none"
                      THEN {noted, last'}
                      ELSE {noted}

NextMemo == Construct \/ HasPrivilegeNoted \/ HasPrivileges

SpecMemo == InitMemo /\ [][NextMemo]_vars

\* C13: memoization is transparent: a call with the option string and the
\* forum id of an earlier answered has_privilege call returns, and returns
\* the boolean of that earlier call, whatever queries came in between.
C13_SameAnswer ==
    (/\ noted # NoCall
     /\ last.op # "none"
     /\ last.privileges = noted.privileges
     /\ last.forum_id = noted.forum_id) =>
        (Returned(last) /\ last.output = noted.output)

\* '!m_edit' at forum 1 answered false and kept; both options have since
\* been queried at both forums, and '!m_edit' at forum 1 is asked again
C13_Witness ==
    /\ noted # NoCall
    /\ noted.privileges = << <<"!">> \o m_edit >>
    /\ noted.forum_id = 1
    /\ noted.output = FALSE
    /\ last = noted
    /\ DOMAIN _acl_lookup_cache = {"0", "1"}
    /\ \A f \in {"0", "1"} : DOMAIN _acl_lookup_cache[f] = {m_edit, m_delete}

----------------------------------------------------------------------------
(* The session interface, PhpBB3SessionInterface and PhpBB3Session of      *)
(* src/flask_phpbb3/sessions.py.  A request is served by open_session, any *)
(* number of operations of the view on the session dictionary, and         *)
(* save_session; requests are served one after another.  A dictionary key  *)
(* is a TLA+ string; a value is a tagged Python value: Str(s), Number(n)     *)
(* holding the decimal numeral of n, None, and Bytes(s) for a column the   *)
(* database driver returns as bytes.                                       *)

Str(s) == [t |-> "str", v |-> s]

\* an int of one decimal digit
Number(n) == [t |-> "int", v |-> <<LowerDigits[n + 1]>>]

None == [t |-> "none", v |-> <<>>]

Bytes(s) == [t |-> "bytes", v |-> s]

\* str.startswith
StartsWith(s, prefix) ==
    /\ Len(prefix) <= Len(s)
    /\ \A i \in 1..Len(prefix) : s[i] = prefix[i]

sid_123 == <<"1", "2", "3">>
sid_456 == <<"4", "5", "6">>
something == <<"s", "o", "m", "e", "t", "h", "i", "n", "g">>
Anonymous == <<"A", "n", "o", "n", "y", "m", "o", "u", "s">>
test == <<"t", "e", "s", "t">>
Googlebot == <<"G", "o", "o", "g", "l", "e", "b", "o", "t">>
Mozilla == <<"M", "o", "z", "i", "l", "l", "a">>

\* the phpbb_users table of the integration tests: the anonymous user of
\* every phpBB3 installation and the user the tests create
phpbb_users == (1 :> Anonymous) @@ (2 :> test)

\* PhpBB3.get_user(user_id): the user's row, or None; None is the empty
\* dictionary here, open_session tests both with 'not user' alone
get_user(user_id) ==
    IF user_id \in DOMAIN phpbb_users
    THEN ("user_id" :> Number(user_id))
            @@ ("username" :> Str(phpbb_users[user_id]))
    ELSE EmptyMap

\* PhpBB3.get_session(session_id): the row of the stored session joined
\* with its user, the user name as bytes, or None
get_session(session_id) ==
    IF session_id \in DOMAIN phpbb_sessions
    THEN ("session_id" :> Str(session_id))
            @@ ("user_id" :> Number(phpbb_sessions[session_id]))
            @@ ("username" :> Bytes(phpbb_users[phpbb_sessions[session_id]]))
    ELSE EmptyMap

\* user['username'].decode('utf-8', 'ignore') of a found row
Decode(user) ==
    IF user # EmptyMap /\ "username" \in DOMAIN user
    THEN [user EXCEPT !["username"] = Str(user["username"].v)]
    ELSE user

\* PhpBB3SessionInterface._is_bot
_is_bot(req) ==
    \E i \in 1..Len(PHPBB3_BOTLIST) : StartsWith(req.user_agent, PHPBB3_BOTLIST[i])

\* mutant of SessionId: the cookie before the query argument
SessionIdCookieFirst(req) ==
    IF req.sid_cookie # <<>> THEN req.sid_cookie ELSE req.sid_arg

\* request.args.get('sid', type=str) or request.cookies.get(cookie_name +
\* 'sid', None): a missing and an empty one are both the empty string here
SessionId(req) ==
    IF req.sid_arg # <<>> THEN req.sid_arg ELSE req.sid_cookie

BotUser == ("user_id" :> Number(1)) @@ ("username" :> Str(Anonymous))

\* the user of open_session
User(req) ==
    LET session_id == SessionId(req)
        user == IF _is_bot(req) THEN BotUser
                ELSE IF session_id # <<>> THEN Decode(get_session(session_id))
                ELSE EmptyMap
    IN IF user = EmptyMap THEN get_user(1) ELSE user

\* dict.update
Update(d, e) == e @@ d

\* mutant of dumps: every value is written as a string
dumpsStrings(data) ==
    [t |-> "object",
     v |-> [k \in DOMAIN data |-> [t |-> "string", v |-> data[k].v]]]

\* json.dumps of a dictionary of str, int and None values
dumps(data) ==
    [t |-> "object",
     v |-> [k \in DOMAIN data |->
               CASE data[k].t = "str" -> [t |-> "string", v |-> data[k].v]
                 [] data[k].t = "int" -> [t |-> "number", v |-> data[k].v]
                 [] OTHER -> [t |-> "null", v |-> <<>>]]]

\* json.loads(data or ''), a ValueError giving None, and anything but a
\* dictionary giving {}
loads(data) ==
    IF data.t = "object"
    THEN [k \in DOMAIN data.v |->
             CASE data.v[k].t = "string" -> Str(data.v[k].v)
               [] data.v[k].t = "number" -> [t |-> "int", v |-> data.v[k].v]
               [] OTHER -> None]
    ELSE EmptyMap

sessions_ == <<"s", "e", "s", "s", "i", "o", "n", "s", "_">>

\* cache.get(key)
CacheGet(key) ==
    IF key \in DOMAIN phpbb3_cache THEN phpbb3_cache[key] ELSE None

\* PhpBB3SessionInterface.open_session
open_session(req) ==
    LET user == User(req)
        items == Update(EmptyMap, user)
        data == IF "session_id" \in DOMAIN items
                THEN loads(CacheGet(sessions_ \o items["session_id"].v))
                ELSE EmptyMap
    IN IF user # EmptyMap
       THEN [open |-> TRUE, items |-> Update(items, data), modified |-> FALSE,
             _read_only_properties |-> DOMAIN user]
       ELSE [open |-> TRUE, items |-> EmptyMap, modified |-> FALSE,
             _read_only_properties |-> {}]

\* dict.get(key)
Get(items, key) == IF key \in DOMAIN items THEN items[key] ELSE None

\* self.get(key) != value
Changed(s, key, value) == Get(s.items, key) # value

\* key not in self._read_only_properties
Guarded(s, key) == key \notin s._read_only_properties

\* PhpBB3Session.__setitem__
__setitem__(s, key, value) ==
    [s EXCEPT !.items = Put(s.items, key, value),
              !.modified = IF Guarded(s, key)
                           THEN s.modified \/ Changed(s, key, value)
                           ELSE s.modified]

\* dict without one key
Without(items, key) == [k \in DOMAIN items \ {key} |-> items[k]]

\* PhpBB3Session.__delitem__: a KeyError of the dictionary comes before the
\* mark
__delitem__(s, key) ==
    IF key \in DOMAIN s.items
    THEN [raised |-> "none",
          session |-> [s EXCEPT !.items = Without(s.items, key), !.modified = TRUE]]
    ELSE [raised |-> "KeyError", session |-> s]

\* PhpBB3Session.pop(key): the mark comes before a KeyError of the dictionary
pop(s, key) ==
    [raised |-> IF key \in DOMAIN s.items THEN "none" ELSE "KeyError",
     session |-> [s EXCEPT !.items = Without(s.items, key), !.modified = TRUE]]

\* PhpBB3Session.clear
clear(s) == [s EXCEPT !.items = EmptyMap, !.modified = TRUE]

\* mutant of Storable: every item is stored
StorableAll(s) == s.items

\* the 'storable' properties of save_session
Storable(s) ==
    [k \in DOMAIN s.items \ s._read_only_properties |-> s.items[k]]

\* 'session_id' in session
HasSessionId(s) == "session_id" \in DOMAIN s.items

\* mutant of save_session: a session without a session_id is written too
save_sessionWithoutId(cache, s) ==
    IF s.modified /\ s._read_only_properties # {}
    THEN [raised |-> "none", wrote |-> TRUE,
          cache |-> Put(cache,
                        IF "session_id" \in DOMAIN s.items /\ s.items["session_id"].t = "str"
                        THEN sessions_ \o s.items["session_id"].v ELSE sessions_,
                        dumps(Storable(s)))]
    ELSE [raised |-> "none", wrote |-> FALSE, cache |-> cache]

\* PhpBB3SessionInterface.save_session: the cache it leaves, and whether
\* cache.set was called; 'sessions_' + session['session_id'] is a TypeError
\* for a session_id that is not a string
save_session(cache, s) ==
    IF s.modified /\ s._read_only_properties # {} /\ HasSessionId(s)
    THEN IF Get(s.items, "session_id").t = "str"
         THEN [raised |-> "none", wrote |-> TRUE,
               cache |-> Put(cache, sessions_ \o s.items["session_id"].v,
                             dumps(Storable(s)))]
         ELSE [raised |-> "TypeError", wrote |-> FALSE, cache |-> cache]
    ELSE [raised |-> "none", wrote |-> FALSE, cache |-> cache]

(* Requests.                                                               *)

SidValues == {<<>>, sid_123, sid_456}

CookieValues == {<<>>, sid_123}

UserAgents == {Mozilla, Googlebot \o <<"/", "2">>}

BotLists == {<<Googlebot>>}

\* the phpbb_sessions table: the session the integration tests create for
\* the user 'test', alone and with a session of the anonymous user
StoredSessions ==
    {(sid_123 :> 2), (sid_123 :> 2) @@ (sid_456 :> 1)}

\* the assignments of a view: values of the declared type of __setitem__,
\* str | int, to a key of its own, and a session id to 'session_id'
Assignments ==
    {<<"custom_var", Str(something)>>, <<"custom_var", Number(2)>>,
     <<"session_id", Str(sid_123)>>}

Keys == {a[1] : a \in Assignments}

InitSession ==
    /\ AclInit({[t |-> "none", v |-> <<>>]}, {<<>>})
    /\ phpbb_sessions \in StoredSessions
    /\ PHPBB3_BOTLIST \in BotLists
    /\ phpbb3_cache = EmptyMap
    /\ request = NoRequest
    /\ session = NoSession
    /\ kept = NoAssignment
    /\ BackendIdle

\* the observer's record once something happened that may remove or replace
\* what it keeps
Spoiled(happened, how) ==
    IF kept.key # "" /\ kept.spoiled = "no" /\ happened
    THEN [kept EXCEPT !.spoiled = how]
    ELSE kept

\* some entry of the cache holds the value under the key
Cached(key, value) ==
    \E k \in DOMAIN phpbb3_cache :
        /\ key \in DOMAIN loads(phpbb3_cache[k])
        /\ loads(phpbb3_cache[k])[key] = value

\* what the observer may start to keep of session[key] = value: with the
\* session id of the request, the assignment of a request whose session id
\* matches a stored session to a key that is not one of the user's fields;
\* with no session id, an assignment to a session with no session_id field
\* of a value that no entry of the cache holds under the key
Keepable(key, value) ==
    (IF /\ SessionId(request) \in DOMAIN phpbb_sessions
        /\ key \notin session._read_only_properties
     THEN {[session_id |-> SessionId(request), key |-> key, value |-> value,
            saved |-> FALSE,
            spoiled |-> IF _is_bot(request) THEN "bot"
                        ELSE IF Get(session.items, "session_id")
                                   # Str(SessionId(request))
                        THEN "session_id"
                        ELSE kept.spoiled]}
     ELSE {})
    \cup
    (IF /\ ~HasSessionId(session)
        /\ key # "session_id"
        /\ ~Cached(key, value)
     THEN {[session_id |-> <<>>, key |-> key, value |-> value,
            saved |-> FALSE, spoiled |-> "no"]}
     ELSE {})

\* the observer's record after another session[key] = value: what it keeps
\* of a stored session is spoiled by another value for the key and by an
\* assignment to 'session_id'; what it keeps of a session with no
\* session_id field, by an assignment to 'session_id' before the save and
\* by the same value assigned to the key again
Reassigned(key, value) ==
    IF kept.session_id # <<>>
    THEN Spoiled(\/ key = kept.key /\ value # kept.value
                 \/ key = "session_id", key)
    ELSE Spoiled(\/ key = kept.key /\ value = kept.value
                 \/ key = "session_id" /\ ~kept.saved, key)

\* the observer's record after the key left the dictionary
Removed(key) ==
    Spoiled(kept.session_id # <<>> /\ key \in {kept.key, "session_id"}, key)

\* a request arrives: session = open_session(app, request)
OpenSession ==
    /\ ~session.open
    /\ \E sid_arg \in SidValues, sid_cookie \in CookieValues, user_agent \in UserAgents :
          /\ request' = [sid_arg |-> sid_arg, sid_cookie |-> sid_cookie,
                         user_agent |-> user_agent]
          /\ session' = open_session(request')
    /\ kept' = IF kept.key = "" THEN NoAssignment ELSE kept
    /\ UNCHANGED <<phpbb_sessions, PHPBB3_BOTLIST, phpbb3_cache>>
    /\ UNCHANGED <<acl_vars, backend_vars>>

\* the view runs session[key] = value; the observer may keep the assignment
SetItem ==
    /\ session.open
    /\ \E a \in Assignments :
          LET key == a[1]
              value == a[2]
          IN /\ session' = __setitem__(session, key, value)
             /\ kept' \in IF kept.key = ""
                           THEN {kept} \cup Keepable(key, value)
                           ELSE {Reassigned(key, value)}
    /\ UNCHANGED <<phpbb_sessions, PHPBB3_BOTLIST, phpbb3_cache, request>>
    /\ UNCHANGED <<acl_vars, backend_vars>>

\* the view runs del session[key]; a KeyError leaves the session as it was
DelItem ==
    /\ session.open
    /\ \E key \in Keys :
          /\ session' = __delitem__(session, key).session
          /\ kept' = Removed(key)
    /\ UNCHANGED <<phpbb_sessions, PHPBB3_BOTLIST, phpbb3_cache, request>>
    /\ UNCHANGED <<acl_vars, backend_vars>>

\* the view runs session.pop(key)
Pop ==
    /\ session.open
    /\ \E key \in Keys :
          /\ session' = pop(session, key).session
          /\ kept' = Removed(key)
    /\ UNCHANGED <<phpbb_sessions, PHPBB3_BOTLIST, phpbb3_cache, request>>
    /\ UNCHANGED <<acl_vars, backend_vars>>

\* the view runs session.clear()
Clear ==
    /\ session.open
    /\ session' = clear(session)
    /\ kept' = Removed("session_id")
    /\ UNCHANGED <<phpbb_sessions, PHPBB3_BOTLIST, phpbb3_cache, request>>
    /\ UNCHANGED <<acl_vars, backend_vars>>

\* the response is made: save_session(app, session, response); the session
\* and its request stay in the state for the properties to read
SaveSession ==
    /\ session.open
    /\ phpbb3_cache' = save_session(phpbb3_cache, session).cache
    /\ session' = [session EXCEPT !.open = FALSE]
    /\ kept' = IF kept.key = "" THEN kept ELSE [kept EXCEPT !.saved = TRUE]
    /\ UNCHANGED <<phpbb_sessions, PHPBB3_BOTLIST, request>>
    /\ UNCHANGED <<acl_vars, backend_vars>>

\* an entry of the cache reaches its timeout, int(3600 * 1.5) seconds after
\* it was set; the observer marks it while a request it may keep an
\* assignment of is served, and for the session of the assignment it keeps
Expire ==
    /\ \E key \in DOMAIN phpbb3_cache :
          /\ phpbb3_cache' = Without(phpbb3_cache, key)
          /\ kept' = IF \/ kept.key = "" /\ session.open
                        \/ /\ kept.key # "" /\ kept.spoiled = "no"
                           /\ kept.session_id # <<>>
                           /\ key = sessions_ \o kept.session_id
                     THEN [kept EXCEPT !.spoiled = "expired"]
                     ELSE kept
    /\ UNCHANGED <<phpbb_sessions, PHPBB3_BOTLIST, request, session>>
    /\ UNCHANGED <<acl_vars, backend_vars>>

NextSession ==
    OpenSession \/ SetItem \/ DelItem \/ Pop \/ Clear \/ SaveSession \/ Expire

SpecSession == InitSession /\ [][NextSession]_vars

C15_NeverWritten ==
    [][/\ (SaveSession /\ "session_id" \notin DOMAIN session.items) =>
              phpbb3_cache' = phpbb3_cache
       /\ (/\ OpenSession
           /\ kept.key # ""
           /\ kept.session_id = <<>>
           /\ kept.saved
           /\ kept.spoiled = "no") =>
              ~(/\ kept.key \in DOMAIN session'.items
                /\ session'.items[kept.key] = kept.value)]_vars

\* test_storage_invalid_id: custom_var = 'something' was assigned in a
\* request without a session id, nothing is in the cache after its save,
\* and the next request without a session id has no custom_var
C15_Witness ==
    /\ kept.key = "custom_var"
    /\ kept.value = Str(something)
    /\ kept.session_id = <<>>
    /\ kept.saved
    /\ kept.spoiled = "no"
    /\ phpbb3_cache = EmptyMap
    /\ request = [sid_arg |-> <<>>, sid_cookie |-> <<>>, user_agent |-> Mozilla]
    /\ session.open
    /\ session.items = ("user_id" :> Number(1)) @@ ("username" :> Str(Anonymous))

\* int(value) of an int of one decimal digit
IntOf(value) == DigitValue(value.v[1])

\* PhpBB3Session.is_authenticated: int(self.get('user_id', 1)) > 1
is_authenticated(s) ==
    IntOf(IF "user_id" \in DOMAIN s.items THEN s.items["user_id"] ELSE Number(1)) > 1

\* C16: open_session yields the anonymous user (user_id 1, not
\* authenticated) whenever the request supplies no session id, supplies an
\* id that matches no stored session, or comes from a listed bot user
\* agent; it yields a stored session's user only when the id from the 'sid'
\* query argument, or without one from the sid cookie, matches a stored
\* session, and then the user of that session.
C16_AnonymousOrStored ==
    [][OpenSession =>
          LET id == IF request'.sid_arg # <<>> THEN request'.sid_arg
                    ELSE request'.sid_cookie
              bot == \E i \in 1..Len(PHPBB3_BOTLIST) :
                        StartsWith(request'.user_agent, PHPBB3_BOTLIST[i])
              items == session'.items
          IN /\ (id = <<>> \/ id \notin DOMAIN phpbb_sessions \/ bot) =>
                   /\ DOMAIN items = {"user_id", "username"}
                   /\ items["user_id"] = Number(1)
                   /\ items["username"] = Str(Anonymous)
                   /\ ~is_authenticated(session')
             /\ "session_id" \in DOMAIN items =>
                   /\ ~bot
                   /\ id \in DOMAIN phpbb_sessions
                   /\ items["session_id"] = Str(id)
                   /\ items["user_id"] = Number(phpbb_sessions[id])
                   /\ items["username"] = Str(phpbb_users[phpbb_sessions[id]])
                   /\ is_authenticated(session') = (phpbb_sessions[id] > 1)
             /\ (id \in DOMAIN phpbb_sessions /\ ~bot) =>
                   "session_id" \in DOMAIN items]_vars

\* the query argument names the stored session of the anonymous user and
\* the cookie the one of the user 'test': the session is the argument's
C16_Witness ==
    /\ phpbb_sessions = (sid_123 :> 2) @@ (sid_456 :> 1)
    /\ request = [sid_arg |-> sid_456, sid_cookie |-> sid_123, user_agent |-> Mozilla]
    /\ session.open
    /\ ~session.modified
    /\ session.items = ("session_id" :> Str(sid_456))
                          @@ ("user_id" :> Number(1))
                          @@ ("username" :> Str(Anonymous))
    /\ ~is_authenticated(session)

\* the keys a step gave a value they did not have
Assigned(before, after) ==
    {k \in DOMAIN after : k \notin DOMAIN before \/ after[k] # before[k]}

\* the keys of the cache a step set, as far as the cache shows it
Written ==
    {k \in DOMAIN phpbb3_cache' :
        k \notin DOMAIN phpbb3_cache \/ phpbb3_cache'[k] # phpbb3_cache[k]}

\* C18: the data save_session writes to the cache never contains a key of
\* the session's read-only property set; an assignment to a read-only key,
\* or of the value the key already has, does not mark the session
\* modified; and a session that is not marked modified is not written.
C18_ReadOnlyKeys ==
    [][/\ SaveSession =>
              \A k \in Written :
                  DOMAIN phpbb3_cache'[k].v \cap session._read_only_properties = {}
       /\ (SetItem /\ Assigned(session.items, session'.items)
                          \subseteq session._read_only_properties) =>
              session'.modified = session.modified
       /\ (SaveSession /\ ~session.modified) =>
              phpbb3_cache' = phpbb3_cache]_vars

\* the request of session '456' had '123' assigned to its read-only
\* session_id field and nothing else: it was saved unmodified, and nothing
\* was written
C18_Witness ==
    /\ request = [sid_arg |-> sid_456, sid_cookie |-> <<>>, user_agent |-> Mozilla]
    /\ ~session.open
    /\ session._read_only_properties = {"session_id", "user_id", "username"}
    /\ session.items = ("session_id" :> Str(sid_123))
                          @@ ("user_id" :> Number(1))
                          @@ ("username" :> Str(Anonymous))
    /\ ~session.modified
    /\ phpbb3_cache = EmptyMap

----------------------------------------------------------------------------
(* The extension's backend, PhpBB3._backend and PhpBB3.teardown of         *)
(* src/flask_phpbb3/extension.py.  'backends' lists the backends created   *)
(* in the application context, in the order of their creation, each by its *)
(* is_closed; g is the position of the one stored in flask.g under         *)
(* 'phpbb3_backend', 0 for None.                                           *)

MaxBackends == 6    \* backends created in one application context

InitBackend ==
    /\ AclInit({[t |-> "none", v |-> <<>>]}, {<<>>})
    /\ SessionIdle
    /\ BackendIdle

\* flask.g.setdefault('phpbb3_backend', backend): what is stored afterwards
SetDefault(stored, backend) == IF stored = 0 THEN backend ELSE stored

\* PhpBB3._backend: the backends and flask.g it leaves, and the backend it
\* returns
_backend(stored, created) ==
    IF stored = 0 \/ created[stored]
    THEN [backends |-> Append(created, FALSE),
          g |-> SetDefault(stored, Len(created) + 1),
          backend |-> Len(created) + 1]
    ELSE [backends |-> created, g |-> stored, backend |-> stored]

\* an application context is pushed, with a flask.g of its own
Push ==
    /\ ctx # "pushed"
    /\ ctx' = "pushed"
    /\ g' = 0
    /\ backends' = <<>>
    /\ UNCHANGED <<acl_vars, session_vars>>

\* code of the context reads PhpBB3._backend
Backend ==
    /\ ctx = "pushed"
    /\ (g = 0 \/ backends[g]) => Len(backends) < MaxBackends
    /\ backends' = _backend(g, backends).backends
    /\ g' = _backend(g, backends).g
    /\ UNCHANGED ctx
    /\ UNCHANGED <<acl_vars, session_vars>>

\* a backend of the context is closed: BaseBackend.close() by the code that
\* got it from _backend, or its connection ends
Close ==
    /\ ctx = "pushed"
    /\ \E b \in 1..Len(backends) :
          /\ ~backends[b]
          /\ backends' = [backends EXCEPT ![b] = TRUE]
    /\ UNCHANGED <<g, ctx>>
    /\ UNCHANGED <<acl_vars, session_vars>>

\* the application context is popped: PhpBB3.teardown
Teardown ==
    /\ ctx = "pushed"
    /\ backends' = IF g # 0 THEN [backends EXCEPT ![g] = TRUE] ELSE backends
    /\ ctx' = "popped"
    /\ UNCHANGED g
    /\ UNCHANGED <<acl_vars, session_vars>>

NextBackend == Push \/ Backend \/ Close \/ Teardown

SpecBackend == InitBackend /\ [][NextBackend]_vars

\* C17: backend lifecycle: when an application context is torn down,
\* teardown closes the backend of that context, and after teardown no
\* backend created during the context remains open, whatever accesses and
\* closes happened inside the context.
C17_NoneLeftOpen ==
    ctx = "popped" =>
        /\ g # 0 => backends[g]
        /\ \A b \in 1..Len(backends) : backends[b]
====
